---- MODULE Spec2Model ----
(***************************************************************************)
(* Model of the MIPS PDF measure-resolution server (src/server.js, the     *)
(* "MIPS PDF RAG" server, lines 227-398): the handler of                    *)
(* GET /api/cms/measure/:year/:id with its in-memory cache pdfCache, the    *)
(* URL builder CMS_PDF_URL and the section segmenter extractSections; the   *)
(* status endpoint GET /health and the chat-completion proxy                *)
(* POST /api/review.                                                        *)
(***************************************************************************)
EXTENDS Integers, Sequences, FiniteSets, TLC

VARIABLES
    pdfCache,   \* the object pdfCache: a function cacheKey -> [data, ts]
    now,        \* the clock read by Date.now(), in ms since process start
    pc,         \* per request: where its handler is suspended
    params,     \* per request: req.params, [year, id]
    pdfUrl,     \* per request: the local pdfUrl
    pdfData,    \* per request: the local pdfData, [text, numpages]
    err,        \* per request: the error caught by the handler's catch
    res,        \* per request: the response sent, [status, body]
    calls,      \* per request: the calls the handler has made, in order
    startedAt,  \* per request: the clock when the handler was entered
    segText,    \* the argument of a call of extractSections on its own
    segOut,     \* the object it returns
    segPc,      \* "call" before that call, "return" after it, "off" without
    env,        \* process.env: the variables that are set, name -> value
    health,     \* the last response of GET /health, [status, body]
    review      \* per chat-completion request: the state of its handler

vars == <<pdfCache, now, pc, params, pdfUrl, pdfData, err, res, calls,
          startedAt, segText, segOut, segPc, env, health, review>>

pipeVars == <<pdfCache, now, pc, params, pdfUrl, pdfData, err, res, calls,
              startedAt>>

segVars == <<segText, segOut, segPc>>

\* what the handler of GET /api/cms/measure/:year/:id never writes
sideVars == <<segText, segOut, segPc, env, health, review>>

Min(a, b) == IF a < b THEN a ELSE b

(***************************************************************************)
(* Strings.  A text is a sequence of atoms followed by a run of `pad'       *)
(* copies of the filler character "x".  An atom is a string: one of the     *)
(* label words of the patterns table, one of the characters ":", " ",       *)
(* "\n", "S", "s", or the content character "w".  No atom contains "x", so  *)
(* every string of this shape has exactly one representation.  The length   *)
(* of a text is its length in characters.                                   *)
(***************************************************************************)
EmptyText == [head |-> <<>>, pad |-> 0]

PadAtom == "x*"

RECURSIVE SumWidth(_)
SumWidth(s) == IF s = <<>> THEN 0 ELSE Len(Head(s)) + SumWidth(Tail(s))

\* String.prototype.length
TLen(t) == SumWidth(t.head) + t.pad

\* the atoms of a text, its filler run (when not empty) as one last atom
Atoms(t) == IF t.pad > 0 THEN Append(t.head, PadAtom) ELSE t.head

\* the text of a span of Atoms(t)
FromAtoms(a, t) ==
    IF a # <<>> /\ a[Len(a)] = PadAtom
    THEN [head |-> SubSeq(a, 1, Len(a) - 1), pad |-> t.pad]
    ELSE [head |-> a, pad |-> 0]

RECURSIVE TakeChars(_, _)
TakeChars(s, n) ==
    IF s = <<>> \/ Len(Head(s)) > n THEN <<>>
    ELSE <<Head(s)>> \o TakeChars(Tail(s), n - Len(Head(s)))

\* String.prototype.slice(0, n).  The heads of the model are shorter than
\* every n the program uses, so a cut never falls inside an atom.
Slice(t, n) ==
    IF SumWidth(t.head) <= n
    THEN [head |-> t.head, pad |-> Min(t.pad, n - SumWidth(t.head))]
    ELSE [head |-> TakeChars(t.head, n), pad |-> 0]

\* \s of the regular expressions
IsWs(a) == a \in {" ", "\n"}

\* [:\s] of the regular expressions
IsSep(a) == a = ":" \/ IsWs(a)

RECURSIVE DropWs(_)
DropWs(s) == IF s # <<>> /\ IsWs(Head(s)) THEN DropWs(Tail(s)) ELSE s

RECURSIVE DropWsEnd(_)
DropWsEnd(s) ==
    IF s # <<>> /\ IsWs(s[Len(s)]) THEN DropWsEnd(SubSeq(s, 1, Len(s) - 1))
    ELSE s

\* String.prototype.trim
Trim(t) ==
    IF t.pad > 0 THEN [head |-> DropWs(t.head), pad |-> t.pad]
    ELSE [head |-> DropWsEnd(DropWs(t.head)), pad |-> 0]

\* the i flag of the regular expressions: letters compare without case
Upper(a) ==
    CASE a = "numerator" -> "NUMERATOR"
      [] a = "rationale" -> "RATIONALE"
      [] a = "s" -> "S"
      [] OTHER -> a

\* the literal w occurs at the start of atom a.  RATIO is the one literal
\* of the table that starts a longer label word.
StartsWith(a, w) ==
    Upper(a) = w \/ (w = "RATIO" /\ Upper(a) = "RATIONALE")

(***************************************************************************)
(* The regular expressions of extractSections.  Every pattern of the table *)
(* has the shape  LABEL [:\s]+ (.+?) (?:STOP|STOP|...)  with the flags s    *)
(* and i.  A label and a stop are sequences of elements:                    *)
(*   lit w   the literal w                                                  *)
(*   ws      \s+                                                            *)
(*   opt w   [w]?                                                           *)
(*   end     $  (no m flag: the end of the text only)                       *)
(***************************************************************************)
Lit(w) == [k |-> "lit", w |-> w]

Ws == [k |-> "ws", w |-> ""]

Opt(w) == [k |-> "opt", w |-> w]

End == [k |-> "end", w |-> ""]

RECURSIVE SkipWs(_, _)
SkipWs(a, i) == IF i <= Len(a) /\ IsWs(a[i]) THEN SkipWs(a, i + 1) ELSE i

RECURSIVE SkipSep(_, _)
SkipSep(a, i) == IF i <= Len(a) /\ IsSep(a[i]) THEN SkipSep(a, i + 1) ELSE i

\* The position after a match of the element sequence pat at position i of
\* the atoms a, or 0 when pat does not match there.  \s+ and [w]? are greedy;
\* in every pattern of the table they are followed by an element that
\* cannot match what they give back, so the greedy choice is the only one.
\* With `open', the literal that ends pat may end inside an atom (the stop
\* RATIO in RATIONALE); any other literal must match a whole atom.
\* one element e at position i: the position after it, or 0
ElemEnd(a, i, e, partial) ==
    CASE e.k = "lit" ->
           IF i <= Len(a)
              /\ (IF partial THEN StartsWith(a[i], e.w) ELSE Upper(a[i]) = e.w)
           THEN i + 1 ELSE 0
      [] e.k = "ws" -> IF i <= Len(a) /\ IsWs(a[i]) THEN SkipWs(a, i) ELSE 0
      [] e.k = "opt" -> IF i <= Len(a) /\ Upper(a[i]) = e.w THEN i + 1 ELSE i
      [] e.k = "end" -> IF i = Len(a) + 1 THEN i ELSE 0

RECURSIVE MatchEnd(_, _, _, _)
MatchEnd(a, i, pat, open) ==
    IF pat = <<>> THEN i
    ELSE LET j == ElemEnd(a, i, Head(pat), open /\ Tail(pat) = <<>>)
         IN  IF j = 0 THEN 0 ELSE MatchEnd(a, j, Tail(pat), open)

\* the label of a rule; [:\s]+ follows it, so it ends at the end of an atom
LabelEnd(a, i, label) == MatchEnd(a, i, label, FALSE)

\* some alternative of the stop group matches at position e
StopAt(a, e, stops) ==
    \E n \in 1..Len(stops) : MatchEnd(a, e, stops[n], TRUE) # 0

\* the positions at which the stop group matches
StopSet(a, stops) == {e \in 1..(Len(a) + 1) : StopAt(a, e, stops)}

\* The span <<first, last>> of group 1 when the label ends before position
\* j, m separators follow it and the stop group matches at the positions
\* S; <<0, 0>> when there is no match.  [:\s]+ is greedy and gives back one
\* separator at a time: it keeps the largest number k of separators after
\* which group 1 can still end.  (.+?) takes one character at least and
\* then as few as possible: it ends before the first stop after that.
CaptureSpan(j, m, S) ==
    LET ok == {k \in 1..m : \E e \in S : e >= j + k + 1}
        k == CHOOSE x \in ok : \A y \in ok : y <= x
        e == CHOOSE x \in S : x >= j + k + 1
                              /\ \A y \in S : y >= j + k + 1 => x <= y
    IN  IF ok = {} THEN <<0, 0>> ELSE <<j + k, e - 1>>

CaptureFrom(a, j, S) ==
    IF j = 0 THEN <<0, 0>> ELSE CaptureSpan(j, SkipSep(a, j) - j, S)

\* of the spans by start position, the one of the leftmost match
FirstSpan(spans) ==
    IF \A i \in DOMAIN spans : spans[i] = <<0, 0>> THEN <<0, 0>>
    ELSE spans[CHOOSE i \in DOMAIN spans :
                 /\ spans[i] # <<0, 0>>
                 /\ \A y \in DOMAIN spans : spans[y] # <<0, 0>> => i <= y]

\* the spans of group 1 by the position at which the match starts
SpansFrom(a, label, S) ==
    [i \in 1..Len(a) |-> CaptureFrom(a, LabelEnd(a, i, label), S)]

\* text.match(pattern): the span of group 1 of the leftmost match, or
\* <<0, 0>> for null
MatchSpan(a, rule) ==
    FirstSpan(SpansFrom(a, rule.label, StopSet(a, rule.stops)))

\* text.match(pattern) is not null
Matches(t, rule) == MatchSpan(Atoms(t), rule) # <<0, 0>>

SpanText(t, span) == FromAtoms(SubSeq(Atoms(t), span[1], span[2]), t)

\* the table `patterns' of extractSections
Patterns ==
    [ measureTitle |->
        [label |-> <<Lit("MEASURE"), Ws, Lit("TITLE")>>,
         stops |-> << <<Lit("\n")>>,
                      <<Lit("MEASURE"), Lit(" "), Lit("TYPE")>> >>],
      measureType |->
        [label |-> <<Lit("MEASURE"), Ws, Lit("TYPE")>>,
         stops |-> << <<Lit("\n"), Lit("\n")>>,
                      <<Lit("\n"), Lit("COLLECTION")>> >>],
      description |->
        [label |-> <<Lit("DESCRIPTION")>>,
         stops |-> << <<Lit("\n"), Lit("\n")>>, <<Lit("INSTRUCTIONS")>>,
                      <<Lit("DENOMINATOR")>> >>],
      denominator |->
        [label |-> <<Lit("DENOMINATOR")>>,
         stops |-> << <<Lit("DENOMINATOR"), Ws, Lit("NOTE")>>,
                      <<Lit("NUMERATOR")>>, <<Lit("EXCLUSION")>> >>],
      denominatorNote |->
        [label |-> <<Lit("DENOMINATOR"), Ws, Lit("NOTE")>>,
         stops |-> << <<Lit("NUMERATOR")>>, <<Lit("EXCLUSION")>> >>],
      numerator |->
        [label |-> <<Lit("NUMERATOR")>>,
         stops |-> << <<Lit("NUMERATOR"), Ws, Lit("NOTE")>>,
                      <<Lit("EXCLUSION")>>, <<Lit("EXCEPTION")>>,
                      <<Lit("RATIO")>> >>],
      exclusions |->
        [label |-> <<Lit("EXCLUSION"), Opt("S")>>,
         stops |-> << <<Lit("EXCEPTION")>>, <<Lit("RATIO")>>,
                      <<Lit("CLINICAL")>>, <<Lit("PERFORMANCE")>> >>],
      exceptions |->
        [label |-> <<Lit("EXCEPTION"), Opt("S")>>,
         stops |-> << <<Lit("RATIO")>>, <<Lit("CLINICAL")>>,
                      <<Lit("PERFORMANCE")>>, <<End>> >>],
      rationale |->
        [label |-> <<Lit("RATIONALE")>>,
         stops |-> << <<Lit("CLINICAL")>>, <<Lit("GUIDANCE")>>, <<End>> >>],
      submissionMethods |->
        [label |-> <<Lit("SUBMISSION"), Ws, Lit("METHOD"), Opt("S")>>,
         stops |-> << <<Lit("\n"), Lit("\n")>>, <<Lit("DENOMINATOR")>> >>] ]

SECTION_CAP == 1000

\* what the loop of extractSections assigns to sections[key]: match[1],
\* trimmed and cut
SectionValue(t, span) == Slice(Trim(SpanText(t, span)), SECTION_CAP)

\* the object sections after the loop, from the match of every pattern
SectionsOf(t, spans) ==
    [key \in {x \in DOMAIN spans : spans[x] # <<0, 0>>} |->
        SectionValue(t, spans[key])]

\* extractSections(text): a key for every pattern that matched
extractSections(t) ==
    SectionsOf(t, [key \in DOMAIN Patterns |->
                     MatchSpan(Atoms(t), Patterns[key])])

(***************************************************************************)
(* The measure-resolution handler, GET /api/cms/measure/:year/:id.         *)
(***************************************************************************)
\* the number of requests of a run, numbered in order of arrival
NumReq == 2

\* the number of single milliseconds the clock advances by in a run
MaxSlack == 1

Reqs == 1..NumReq

PDF_TTL == 7 * 24 * 60 * 60 * 1000

MIN_TEXT == 100

FULLTEXT_CAP == 15000

PAD_WIDTH == 3

\* the route parameters of the requests
Refs ==
    { [year |-> "2024", id |-> "7"],
      [year |-> "2024", id |-> "1_7"],
      [year |-> "2024_1", id |-> "7"] }

\* faulty variant of PadStart: the zeros are put after the id (padEnd)
RECURSIVE PadEnd(_, _, _)
PadEnd(s, n, c) == IF Len(s) >= n THEN s ELSE PadEnd(s \o c, n, c)

\* String.prototype.padStart(n, c), c one character
RECURSIVE PadStart(_, _, _)
PadStart(s, n, c) == IF Len(s) >= n THEN s ELSE PadStart(c \o s, n, c)

CMS_PDF_URL(year, id) ==
    LET paddedId == PadStart(id, PAD_WIDTH, "0")
    IN  "https://qpp.cms.gov/docs/QPP_quality_measure_specifications/CQM-Measures/"
        \o year \o "_Measure_" \o paddedId \o "_MIPSCQM.pdf"

cacheKey(year, id) == "pdf_" \o year \o "_" \o id

\* new Date().toISOString(): the instant, formatted
ToISOString(t) == <<"ISO-8601", t>>

\* an object with no own property
EmptyObj == <<>>

NoParams == [year |-> "", id |-> ""]

NoData == [text |-> EmptyText, numpages |-> 0]

NoErr == [from |-> "", message |-> ""]

\* status 0: no response has been sent
NoRes == [status |-> 0, body |-> EmptyObj]

\* what the upstream server and pdf-parse can answer
FetchStatuses == {200, 404, 500}

FetchErrors == {"network timeout at: qpp.cms.gov"}

BufferErrors == {"Premature close"}

ParseErrors == {"Invalid PDF structure"}

Label == <<"RATIONALE", ":", " ">>

\* texts one character short of the minimum, of the minimum length, and one
\* character over the cap of fullText
DocTexts ==
    { [head |-> Label, pad |-> MIN_TEXT - 1 - SumWidth(Label)],
      [head |-> Label, pad |-> MIN_TEXT - SumWidth(Label)],
      [head |-> Label, pad |-> FULLTEXT_CAP + 1 - SumWidth(Label)] }

Docs == [text : DocTexts, numpages : {1}]

\* faulty variant of CacheHit: an entry is still served when its age equals
\* the time-to-live (<= for <)
CacheHitInclusive(cache, key, t) ==
    key \in DOMAIN cache /\ t - cache[key].ts <= PDF_TTL

\* faulty variant of CacheHit: the cache is never consulted
CacheHitNever(cache, key, t) == FALSE

\* the condition of the cache check
CacheHit(cache, key, t) ==
    key \in DOMAIN cache /\ t - cache[key].ts < PDF_TTL

\* { ...data, cached: true }
HitBody(data) ==
    [f \in DOMAIN data \cup {"cached"} |->
        IF f = "cached" THEN TRUE ELSE data[f]]

\* res.status(404).json({ error, id, year, pdfUrl, hint })
NotFoundResponse(id, year, url) ==
    [status |-> 404,
     body |-> [error |-> "PDF not found for Measure #" \o id \o " (" \o year
                         \o "). URL tried: " \o url,
               id |-> id, year |-> year, pdfUrl |-> url,
               hint |-> "Verify the measure ID exists for this year at qpp.cms.gov"]]

\* faulty variant of CatchResponse: the catch block answers as the one of
\* POST /api/review does, with the message alone
CatchResponseBare(e, id, year, url) ==
    [status |-> 500, body |-> [error |-> e.message]]

\* the catch block
CatchResponse(e, id, year, url) ==
    [status |-> 502,
     body |-> [error |-> e.message, id |-> id, year |-> year, pdfUrl |-> url]]

\* !fullText || fullText.length < 100
TooShort(text) == text = EmptyText \/ TLen(text) < MIN_TEXT

\* faulty variant of MakeResult: charCount is taken after the cut
MakeResultCountAfterCut(id, year, url, data, t) ==
    [id |-> id, year |-> year, pdfUrl |-> url,
     fullText |-> Slice(data.text, FULLTEXT_CAP),
     sections |-> extractSections(data.text),
     pageCount |-> data.numpages,
     charCount |-> TLen(Slice(data.text, FULLTEXT_CAP)),
     fetchedAt |-> ToISOString(t),
     source |-> "Official CMS QPP PDF (qpp.cms.gov)"]

\* the object `result'
MakeResult(id, year, url, data, t) ==
    [id |-> id, year |-> year, pdfUrl |-> url,
     fullText |-> Slice(data.text, FULLTEXT_CAP),
     sections |-> extractSections(data.text),
     pageCount |-> data.numpages,
     charCount |-> TLen(data.text),
     fetchedAt |-> ToISOString(t),
     source |-> "Official CMS QPP PDF (qpp.cms.gov)"]

\* faulty variant of StoreEntry: an entry that exists is kept
StoreIfAbsent(cache, key, result, t) ==
    [k \in DOMAIN cache \cup {key} |->
        IF k \in DOMAIN cache THEN cache[k] ELSE [data |-> result, ts |-> t]]

\* pdfCache[cacheKey] = { data: result, ts: Date.now() }
StoreEntry(cache, key, result, t) ==
    [k \in DOMAIN cache \cup {key} |->
        IF k = key THEN [data |-> result, ts |-> t] ELSE cache[k]]

\* faulty variant of Finish: the result is built and stored before the length
\* check, so that a too-short text is answered with an error and stored
FinishStoreFirst(cache, p, url, data, t) ==
    LET result == MakeResult(p.id, p.year, url, data, t)
        stored == StoreEntry(cache, cacheKey(p.year, p.id), result, t)
    IN  IF TooShort(data.text)
        THEN LET e == [from |-> "handler",
                       message |-> "PDF text extraction returned empty content"]
             IN  [cache |-> stored, err |-> e,
                  res |-> CatchResponse(e, p.id, p.year, url),
                  calls |-> <<"extractSections", "store", "res.json">>]
        ELSE [cache |-> stored, err |-> NoErr,
              res |-> [status |-> 200, body |-> result],
              calls |-> <<"extractSections", "store", "res.json">>]

\* faulty variant of Finish: the text is segmented before the length check
FinishSegmentFirst(cache, p, url, data, t) ==
    IF TooShort(data.text)
    THEN LET e == [from |-> "handler",
                   message |-> "PDF text extraction returned empty content"]
         IN  [cache |-> cache, err |-> e,
              res |-> CatchResponse(e, p.id, p.year, url),
              calls |-> <<"extractSections", "res.json">>]
    ELSE LET result == MakeResult(p.id, p.year, url, data, t)
         IN  [cache |-> StoreEntry(cache, cacheKey(p.year, p.id), result, t),
              err |-> NoErr,
              res |-> [status |-> 200, body |-> result],
              calls |-> <<"extractSections", "store", "res.json">>]

\* faulty variant of Finish: a too-short text evicts the entry of its key
FinishEvict(cache, p, url, data, t) ==
    IF TooShort(data.text)
    THEN LET e == [from |-> "handler",
                   message |-> "PDF text extraction returned empty content"]
         IN  [cache |-> [k \in DOMAIN cache \ {cacheKey(p.year, p.id)} |->
                            cache[k]],
              err |-> e,
              res |-> CatchResponse(e, p.id, p.year, url),
              calls |-> <<"res.json">>]
    ELSE LET result == MakeResult(p.id, p.year, url, data, t)
         IN  [cache |-> StoreEntry(cache, cacheKey(p.year, p.id), result, t),
              err |-> NoErr,
              res |-> [status |-> 200, body |-> result],
              calls |-> <<"extractSections", "store", "res.json">>]

\* The handler from the return of pdfParse to its end: the length check,
\* the segmentation, the result, the store and the response, or the throw
\* and the catch block.
Finish(cache, p, url, data, t) ==
    IF TooShort(data.text)
    THEN LET e == [from |-> "handler",
                   message |-> "PDF text extraction returned empty content"]
         IN  [cache |-> cache, err |-> e,
              res |-> CatchResponse(e, p.id, p.year, url),
              calls |-> <<"res.json">>]
    ELSE LET result == MakeResult(p.id, p.year, url, data, t)
         IN  [cache |-> StoreEntry(cache, cacheKey(p.year, p.id), result, t),
              err |-> NoErr,
              res |-> [status |-> 200, body |-> result],
              calls |-> <<"extractSections", "store", "res.json">>]

\* the state when the process has started and the requests R are to come
PipeInitOf(R) ==
    /\ pdfCache = EmptyObj
    /\ now = 0
    /\ pc = [r \in R |-> "idle"]
    /\ params = [r \in R |-> NoParams]
    /\ pdfUrl = [r \in R |-> ""]
    /\ pdfData = [r \in R |-> NoData]
    /\ err = [r \in R |-> NoErr]
    /\ res = [r \in R |-> NoRes]
    /\ calls = [r \in R |-> <<>>]
    /\ startedAt = [r \in R |-> 0]

PipeInit == PipeInitOf(Reqs)

SegIdle ==
    /\ segText = EmptyText
    /\ segOut = EmptyObj
    /\ segPc = "off"

\* the number of chat-completion requests of a run
NumRev == 2

Revs == 1..NumRev

\* the handler of POST /api/review before its request has arrived
IdleReview ==
    [pc |-> "idle", via |-> "", sent |-> <<>>, upstream |-> 0, res |-> NoRes]

\* no credential is set, no status has been asked for, no chat-completion
\* request has arrived
ProxyIdle ==
    /\ env = EmptyObj
    /\ health = NoRes
    /\ review = [v \in Revs |-> IdleReview]

Init == PipeInit /\ SegIdle /\ ProxyIdle

\* A request arrives: the cache check, and on a miss the URL and the call
\* of fetch, at whose await the handler is suspended.
BeginWith(r, refs) ==
    /\ pc[r] = "idle"
    /\ IF r = 1 THEN TRUE ELSE pc[r - 1] # "idle"
    /\ \E p \in refs :
        LET key == cacheKey(p.year, p.id)
        IN  /\ params' = [params EXCEPT ![r] = p]
            /\ startedAt' = [startedAt EXCEPT ![r] = now]
            /\ IF CacheHit(pdfCache, key, now)
               THEN /\ res' = [res EXCEPT ![r] =
                          [status |-> 200, body |-> HitBody(pdfCache[key].data)]]
                    /\ calls' = [calls EXCEPT ![r] = <<"res.json">>]
                    /\ pc' = [pc EXCEPT ![r] = "done"]
                    /\ UNCHANGED pdfUrl
               ELSE /\ pdfUrl' = [pdfUrl EXCEPT ![r] = CMS_PDF_URL(p.year, p.id)]
                    /\ calls' = [calls EXCEPT ![r] = <<"CMS_PDF_URL", "fetch">>]
                    /\ pc' = [pc EXCEPT ![r] = "fetch"]
                    /\ UNCHANGED res
    /\ UNCHANGED <<pdfCache, now, pdfData, err, sideVars>>

Begin(r) == BeginWith(r, Refs)

\* fetch throws: the catch block answers
FetchThrows(r) ==
    /\ pc[r] = "fetch"
    /\ \E m \in FetchErrors :
        LET e == [from |-> "fetch", message |-> m]
        IN  /\ err' = [err EXCEPT ![r] = e]
            /\ res' = [res EXCEPT ![r] =
                  CatchResponse(e, params[r].id, params[r].year, pdfUrl[r])]
    /\ calls' = [calls EXCEPT ![r] = Append(@, "res.json")]
    /\ pc' = [pc EXCEPT ![r] = "done"]
    /\ UNCHANGED <<pdfCache, now, params, pdfUrl, pdfData, startedAt, sideVars>>

\* faulty variant of FetchAnswers: the `return' before the 404 answer is
\* missing, so the handler answers and goes on to pdfResponse.buffer()
FetchAnswersNoReturn(r, statuses) ==
    /\ pc[r] = "fetch"
    /\ \E status \in statuses :
        IF status # 200
        THEN /\ res' = [res EXCEPT ![r] =
                   NotFoundResponse(params[r].id, params[r].year, pdfUrl[r])]
             /\ calls' = [calls EXCEPT ![r] = @ \o <<"res.json", "buffer">>]
             /\ pc' = [pc EXCEPT ![r] = "buffer"]
        ELSE /\ calls' = [calls EXCEPT ![r] = Append(@, "buffer")]
             /\ pc' = [pc EXCEPT ![r] = "buffer"]
             /\ UNCHANGED res
    /\ UNCHANGED <<pdfCache, now, params, pdfUrl, pdfData, err, startedAt, sideVars>>

\* faulty variant of FetchAnswers: after a first response that is not ok
\* fetch is called once more
FetchAnswersRetry(r, statuses) ==
    /\ pc[r] = "fetch"
    /\ \E status \in statuses :
        IF status # 200 /\ Len(calls[r]) < 3
        THEN /\ calls' = [calls EXCEPT ![r] = Append(@, "fetch")]
             /\ UNCHANGED <<pc, res>>
        ELSE IF status # 200
        THEN /\ res' = [res EXCEPT ![r] =
                   NotFoundResponse(params[r].id, params[r].year, pdfUrl[r])]
             /\ calls' = [calls EXCEPT ![r] = Append(@, "res.json")]
             /\ pc' = [pc EXCEPT ![r] = "done"]
        ELSE /\ calls' = [calls EXCEPT ![r] = Append(@, "buffer")]
             /\ pc' = [pc EXCEPT ![r] = "buffer"]
             /\ UNCHANGED res
    /\ UNCHANGED <<pdfCache, now, params, pdfUrl, pdfData, err, startedAt, sideVars>>

\* fetch returns a response: not ok, the 404 answer; ok, the call of
\* pdfResponse.buffer()
FetchAnswers(r, statuses) ==
    /\ pc[r] = "fetch"
    /\ \E status \in statuses :
        IF status # 200
        THEN /\ res' = [res EXCEPT ![r] =
                   NotFoundResponse(params[r].id, params[r].year, pdfUrl[r])]
             /\ calls' = [calls EXCEPT ![r] = Append(@, "res.json")]
             /\ pc' = [pc EXCEPT ![r] = "done"]
        ELSE /\ calls' = [calls EXCEPT ![r] = Append(@, "buffer")]
             /\ pc' = [pc EXCEPT ![r] = "buffer"]
             /\ UNCHANGED res
    /\ UNCHANGED <<pdfCache, now, params, pdfUrl, pdfData, err, startedAt, sideVars>>

FetchReturns(r) == FetchAnswers(r, FetchStatuses)

\* pdfResponse.buffer() throws: the catch block answers
BufferThrows(r) ==
    /\ pc[r] = "buffer"
    /\ \E m \in BufferErrors :
        LET e == [from |-> "buffer", message |-> m]
        IN  /\ err' = [err EXCEPT ![r] = e]
            /\ res' = [res EXCEPT ![r] =
                  CatchResponse(e, params[r].id, params[r].year, pdfUrl[r])]
    /\ calls' = [calls EXCEPT ![r] = Append(@, "res.json")]
    /\ pc' = [pc EXCEPT ![r] = "done"]
    /\ UNCHANGED <<pdfCache, now, params, pdfUrl, pdfData, startedAt, sideVars>>

\* pdfResponse.buffer() returns: the call of pdfParse
BufferReturns(r) ==
    /\ pc[r] = "buffer"
    /\ calls' = [calls EXCEPT ![r] = Append(@, "pdfParse")]
    /\ pc' = [pc EXCEPT ![r] = "parse"]
    /\ UNCHANGED <<pdfCache, now, params, pdfUrl, pdfData, err, res, startedAt,
                   sideVars>>

\* pdfParse throws: the catch block answers
ParseThrows(r) ==
    /\ pc[r] = "parse"
    /\ \E m \in ParseErrors :
        LET e == [from |-> "pdfParse", message |-> m]
        IN  /\ err' = [err EXCEPT ![r] = e]
            /\ res' = [res EXCEPT ![r] =
                  CatchResponse(e, params[r].id, params[r].year, pdfUrl[r])]
    /\ calls' = [calls EXCEPT ![r] = Append(@, "res.json")]
    /\ pc' = [pc EXCEPT ![r] = "done"]
    /\ UNCHANGED <<pdfCache, now, params, pdfUrl, pdfData, startedAt, sideVars>>

\* pdfParse returns: the rest of the handler runs without suspension
ParseAnswers(r, docs) ==
    /\ pc[r] = "parse"
    /\ \E data \in docs :
        LET f == Finish(pdfCache, params[r], pdfUrl[r], data, now)
        IN  /\ pdfData' = [pdfData EXCEPT ![r] = data]
            /\ pdfCache' = f.cache
            /\ err' = [err EXCEPT ![r] = f.err]
            /\ res' = [res EXCEPT ![r] = f.res]
            /\ calls' = [calls EXCEPT ![r] = @ \o f.calls]
    /\ pc' = [pc EXCEPT ![r] = "done"]
    /\ UNCHANGED <<now, params, pdfUrl, startedAt, sideVars>>

ParseReturns(r) == ParseAnswers(r, Docs)

\* Time passes: one millisecond, or one millisecond less than the
\* time-to-live.  A run has at most MaxSlack single milliseconds and one
\* long wait, so now = (single milliseconds) + (long waits) * (PDF_TTL - 1).
Tick ==
    /\ \E d \in {1, PDF_TTL - 1} :
        /\ IF d = 1 THEN now % (PDF_TTL - 1) < MaxSlack
                    ELSE now < PDF_TTL - 1
        /\ now' = now + d
    /\ UNCHANGED <<pdfCache, pc, params, pdfUrl, pdfData, err, res, calls,
                   startedAt, sideVars>>

Next ==
    \/ \E r \in Reqs : Begin(r)
    \/ \E r \in Reqs : FetchThrows(r)
    \/ \E r \in Reqs : FetchReturns(r)
    \/ \E r \in Reqs : BufferThrows(r)
    \/ \E r \in Reqs : BufferReturns(r)
    \/ \E r \in Reqs : ParseThrows(r)
    \/ \E r \in Reqs : ParseReturns(r)
    \/ Tick

Spec == Init /\ [][Next]_vars

\* a step of the handler of r after its first await: a promise it waits
\* for is settled and the handler goes on
Resume(r) ==
    \/ FetchThrows(r)
    \/ FetchReturns(r)
    \/ BufferThrows(r)
    \/ BufferReturns(r)
    \/ ParseThrows(r)
    \/ ParseReturns(r)

\* Every promise a handler waits for is settled in the end (fetch returns or
\* times out, buffer() and pdfParse return or throw), and the event loop
\* then runs the handler.
LiveSpec == Spec /\ \A r \in Reqs : WF_vars(Resume(r))

(***************************************************************************)
(* One request more, against an upstream that is up: every fetch is        *)
(* answered 200, every body arrives and parses to the same document.       *)
(***************************************************************************)
MoreReqs == 1..(NumReq + 1)

GoodDocs == {d \in Docs : TLen(d.text) = MIN_TEXT}

FetchOk(r) == FetchAnswers(r, {200})

ParseOk(r) == ParseAnswers(r, GoodDocs)

UpInit == PipeInitOf(MoreReqs) /\ SegIdle /\ ProxyIdle

UpNext ==
    \/ \E r \in MoreReqs : Begin(r)
    \/ \E r \in MoreReqs : FetchOk(r)
    \/ \E r \in MoreReqs : BufferReturns(r)
    \/ \E r \in MoreReqs : ParseOk(r)
    \/ Tick

UpSpec == UpInit /\ [][UpNext]_vars


(***************************************************************************)
(* The status endpoint, GET /health, beside the measure handler against an *)
(* upstream that is up.  process.env is read, never written: a run starts  *)
(* with any of the two credentials unset, set to the empty string or set   *)
(* to a key.                                                               *)
(***************************************************************************)
Envs ==
    UNION { [S -> {"", "key"}] :
              S \in SUBSET {"GROQ_API_KEY", "ANTHROPIC_API_KEY"} }

\* process.env[name] as a condition: set and not the empty string
Truthy(e, name) == name \in DOMAIN e /\ e[name] # ""

\* GROQ_API_KEY ? "Groq (free)" : ANTHROPIC_API_KEY ? "Anthropic" : "No key"
Engine(e) ==
    IF Truthy(e, "GROQ_API_KEY") THEN "Groq (free)"
    ELSE IF Truthy(e, "ANTHROPIC_API_KEY") THEN "Anthropic"
    ELSE "No key"

\* Object.keys(pdfCache).length + " PDFs cached"
CacheReport(cache) == ToString(Cardinality(DOMAIN cache)) \o " PDFs cached"

\* the body of the response; the dash of `method' is written "-"
HealthResponse(cache, e) ==
    [status |-> 200,
     body |-> [status |-> "ok",
               engine |-> Engine(e),
               pdfCache |-> CacheReport(cache),
               method |-> "RAG - CMS PDF download + text extraction"]]

\* GET /health
Health ==
    /\ health' = HealthResponse(pdfCache, env)
    /\ UNCHANGED <<pipeVars, segVars, env, review>>

StatusInit ==
    /\ PipeInit /\ SegIdle
    /\ env \in Envs
    /\ health = NoRes
    /\ review = [v \in Revs |-> IdleReview]

StatusNext ==
    \/ \E r \in Reqs : Begin(r)
    \/ \E r \in Reqs : FetchOk(r)
    \/ \E r \in Reqs : BufferReturns(r)
    \/ \E r \in Reqs : ParseOk(r)
    \/ Tick
    \/ Health

StatusSpec == StatusInit /\ [][StatusNext]_vars

(***************************************************************************)
(* The chat-completion proxy, POST /api/review.  A request carries a JSON  *)
(* body, which express.json() has parsed to an object.  Of a handler the   *)
(* model keeps: pc, where it is suspended; via, the branch it took; sent,  *)
(* the outbound requests it has made; upstream, the status r.status; res,  *)
(* the response it has sent.                                               *)
(***************************************************************************)
GROQ_URL == "https://api.groq.com/openai/v1/chat/completions"

ANTHROPIC_URL == "https://api.anthropic.com/v1/messages"

\* faulty variant of Backend: the second credential is looked at first
BackendAnthropicFirst(e) ==
    IF Truthy(e, "ANTHROPIC_API_KEY") THEN "anthropic"
    ELSE IF Truthy(e, "GROQ_API_KEY") THEN "groq"
    ELSE "none"

\* if (groqKey) ... else if (anthropicKey) ... else ...
Backend(e) ==
    IF Truthy(e, "GROQ_API_KEY") THEN "groq"
    ELSE IF Truthy(e, "ANTHROPIC_API_KEY") THEN "anthropic"
    ELSE "none"

\* the call of fetch in the branch b: the address and the credential sent
Outbound(b, e) ==
    IF b = "groq"
    THEN [url |-> GROQ_URL, credential |-> e["GROQ_API_KEY"]]
    ELSE [url |-> ANTHROPIC_URL, credential |-> e["ANTHROPIC_API_KEY"]]

\* the statuses a backend answers with: r.ok is true for the first
ReviewStatuses == {200, 429}

ReviewErrors == {"request to backend failed"}

JsonErrors == {"Unexpected token < in JSON"}

\* what r.json() returns: a completion in the form of the backend (for
\* Groq also one without choices), or an error object
ReviewData(b, status) ==
    IF status # 200 THEN {[error |-> [message |-> "Rate limit reached"]]}
    ELSE IF b = "groq"
    THEN {[choices |-> <<[message |-> [content |-> "Looks fine."]]>>],
          [choices |-> <<>>]}
    ELSE {[content |-> <<[type |-> "text", text |-> "Looks fine."]>>]}

\* data.choices?.[0]?.message?.content || ""
GroqText(data) ==
    IF "choices" \in DOMAIN data /\ data.choices # <<>>
    THEN data.choices[1].message.content
    ELSE ""

\* the response to what the backend b answered
ReviewResponse(b, status, data) ==
    IF status # 200 THEN [status |-> status, body |-> data]
    ELSE IF b = "groq"
    THEN [status |-> 200,
          body |-> [content |-> <<[type |-> "text", text |-> GroqText(data)]>>]]
    ELSE [status |-> 200, body |-> data]

\* the catch blocks of the two branches
ReviewCatch(m) == [status |-> 500, body |-> [error |-> m]]

\* A request arrives: the branch is chosen and fetch is called, or the
\* request is refused.
ReviewBegin(v) ==
    /\ review[v].pc = "idle"
    /\ IF v = 1 THEN TRUE ELSE review[v - 1].pc # "idle"
    /\ LET b == Backend(env)
       IN  IF b = "none"
           THEN review' = [review EXCEPT ![v] =
                    [@ EXCEPT !.pc = "done", !.via = b,
                              !.res = [status |-> 400,
                                       body |-> [error |-> "No API key set."]]]]
           ELSE review' = [review EXCEPT ![v] =
                    [@ EXCEPT !.pc = "fetch", !.via = b,
                              !.sent = Append(@, Outbound(b, env))]]
    /\ UNCHANGED <<pipeVars, segVars, env, health>>

\* fetch throws: the catch block answers
ReviewFetchThrows(v) ==
    /\ review[v].pc = "fetch"
    /\ \E m \in ReviewErrors :
        review' = [review EXCEPT ![v] =
                     [@ EXCEPT !.pc = "done", !.res = ReviewCatch(m)]]
    /\ UNCHANGED <<pipeVars, segVars, env, health>>

\* fetch returns a response: the call of r.json()
ReviewFetchReturns(v) ==
    /\ review[v].pc = "fetch"
    /\ \E status \in ReviewStatuses :
        review' = [review EXCEPT ![v] =
                     [@ EXCEPT !.pc = "json", !.upstream = status]]
    /\ UNCHANGED <<pipeVars, segVars, env, health>>

\* r.json() throws: the catch block answers
ReviewJsonThrows(v) ==
    /\ review[v].pc = "json"
    /\ \E m \in JsonErrors :
        review' = [review EXCEPT ![v] =
                     [@ EXCEPT !.pc = "done", !.res = ReviewCatch(m)]]
    /\ UNCHANGED <<pipeVars, segVars, env, health>>

\* r.json() returns: the answer of the backend is passed on
ReviewJsonReturns(v) ==
    /\ review[v].pc = "json"
    /\ \E data \in ReviewData(review[v].via, review[v].upstream) :
        review' = [review EXCEPT ![v] =
                     [@ EXCEPT !.pc = "done",
                               !.res = ReviewResponse(review[v].via,
                                                      review[v].upstream, data)]]
    /\ UNCHANGED <<pipeVars, segVars, env, health>>

ReviewNext ==
    \/ \E v \in Revs : ReviewBegin(v)
    \/ \E v \in Revs : ReviewFetchThrows(v)
    \/ \E v \in Revs : ReviewFetchReturns(v)
    \/ \E v \in Revs : ReviewJsonThrows(v)
    \/ \E v \in Revs : ReviewJsonReturns(v)

ReviewSpec == StatusInit /\ [][ReviewNext]_vars

(***************************************************************************)
(* CMS_PDF_URL on its own: one request, for any year of Years and any id   *)
(* of one to MaxIdLen digits of Digits, which the upstream refuses.        *)
(***************************************************************************)
MaxIdLen == 4

Digits == {"0", "7"}

Years == {"2024", "2025"}

RECURSIVE IdsOfLen(_)
IdsOfLen(n) ==
    IF n = 0 THEN {""} ELSE {d \o i : d \in Digits, i \in IdsOfLen(n - 1)}

LocRefs == [year : Years, id : UNION {IdsOfLen(n) : n \in 1..MaxIdLen}]

BeginLocate(r) == BeginWith(r, LocRefs)

FetchRefused(r) == FetchAnswers(r, {404})

LocateNext ==
    \/ BeginLocate(1)
    \/ FetchRefused(1)

LocateSpec == Init /\ [][LocateNext]_vars

(***************************************************************************)
(* The end-to-end scenario: an upstream that is up serves documents that   *)
(* contain "NUMERATOR: Patients screened. EXCLUSION: Patients under 18.":  *)
(* at the end of the text after an introduction, followed by running text, *)
(* and followed by the label CLINICAL and running text.                    *)
(***************************************************************************)
Phrase ==
    <<"NUMERATOR", ":", " ", "Patients screened.", " ",
      "EXCLUSION", ":", " ", "Patients under 18.">>

Intro == "This document lists what eligible providers report each year. "

ScenarioTexts ==
    { [head |-> <<Intro>> \o Phrase, pad |-> 0],
      [head |-> Phrase, pad |-> MIN_TEXT - SumWidth(Phrase)],
      [head |-> Phrase \o <<" ", "CLINICAL">>, pad |-> MIN_TEXT] }

ScenarioDocs == [text : ScenarioTexts, numpages : {1}]

ParseScenario(r) == ParseAnswers(r, ScenarioDocs)

ScenarioNext ==
    \/ \E r \in Reqs : Begin(r)
    \/ \E r \in Reqs : FetchOk(r)
    \/ \E r \in Reqs : BufferReturns(r)
    \/ \E r \in Reqs : ParseScenario(r)
    \/ Tick

ScenarioSpec == Init /\ [][ScenarioNext]_vars

(***************************************************************************)
(* extractSections on its own: called once, on any text of at most         *)
(* MaxSegLen atoms of SegAtoms and at most one filler character.           *)
(***************************************************************************)
MaxSegLen == 3

SegAtoms ==
    {"RATIONALE", "DENOMINATOR", "NUMERATOR", "EXCLUSION", "CLINICAL",
     ":", " ", "\n", "w"}

RECURSIVE SeqsUpTo(_, _)
SeqsUpTo(S, n) ==
    IF n = 0 THEN {<<>>}
    ELSE LET shorter == SeqsUpTo(S, n - 1)
         IN  shorter \cup {Append(q, x) : q \in shorter, x \in S}

SegTexts == [head : SeqsUpTo(SegAtoms, MaxSegLen), pad : {0, 1}]

SegInit ==
    /\ PipeInit
    /\ segText \in SegTexts
    /\ segOut = EmptyObj
    /\ segPc = "call"
    /\ ProxyIdle

Segment ==
    /\ segPc = "call"
    /\ segOut' = extractSections(segText)
    /\ segPc' = "return"
    /\ UNCHANGED <<segText, pipeVars, env, health, review>>

SegNext == Segment

SegSpec == SegInit /\ [][SegNext]_vars

(***************************************************************************)
(* Vocabulary of the properties.                                           *)
(***************************************************************************)
AllReqs == DOMAIN pc

KeyOf(r) == cacheKey(params[r].year, params[r].id)

\* the handler of r has answered
Done(r) == pc[r] = "done"

\* r was answered with a result it computed itself
Fresh(r) ==
    Done(r) /\ res[r].status = 200 /\ "cached" \notin DOMAIN res[r].body

\* r was answered from the cache
HitDone(r) ==
    Done(r) /\ res[r].status = 200 /\ "cached" \in DOMAIN res[r].body

\* r was answered with an error
Failed(r) == Done(r) /\ res[r].status # 200

\* the instant at which the fresh result of r was built and stored
FetchedMs(r) == res[r].body.fetchedAt[2]

\* body is data in every field, and the cache-hit flag
IsCachedCopy(body, data) ==
    /\ DOMAIN body = DOMAIN data \cup {"cached"}
    /\ "cached" \notin DOMAIN data
    /\ body["cached"] = TRUE
    /\ \A f \in DOMAIN data : body[f] = data[f]

\* the cache holds an entry for key whose age is below the time-to-live
LiveEntry(key) ==
    key \in DOMAIN pdfCache /\ now < pdfCache[key].ts + PDF_TTL

\* text f is the first characters of text t
IsPrefixText(f, t) ==
    \/ f.head = t.head /\ f.pad <= t.pad
    \/ f.pad = 0 /\ Len(f.head) <= Len(t.head)
       /\ f.head = SubSeq(t.head, 1, Len(f.head))

\* in this step the handler of r is entered (the request arrives)
Enters(r) == pc[r] = "idle" /\ pc'[r] # "idle"

\* in this step the handler of r stores a result and answers with it
Stores(r) == pc[r] = "parse" /\ pc'[r] = "done" /\ res'[r].status = 200

\* the calls the handler of r makes in this step
NewCalls(r) == SubSeq(calls'[r], Len(calls[r]) + 1, Len(calls'[r]))

Range(q) == {q[i] : i \in DOMAIN q}

\* the calls of retrieval, extraction and segmentation
PipelineCalls == {"fetch", "buffer", "pdfParse", "extractSections"}

\* which failure a failed request met
Kind(r) ==
    CASE err[r].from \in {"fetch", "buffer"} -> "TransportError"
      [] err[r].from = "pdfParse" -> "MalformedDocument"
      [] err[r].from = "handler" -> "EmptyExtraction"
      [] OTHER -> "NotFound"

\* two responses differ in something other than the text of body.error
DiffersBeyondMessage(a, b) ==
    \/ a.status # b.status
    \/ DOMAIN a.body # DOMAIN b.body
    \/ \E f \in DOMAIN a.body \ {"error"} : a.body[f] # b.body[f]

(***************************************************************************)
(* C1.  A resolve call that starts after a successful resolve of the same  *)
(* (year, id) has stored its result, and before that entry's age reaches   *)
(* the time-to-live, calls neither retrieval nor extraction and is         *)
(* answered with a stored result of a resolve of that (year, id),          *)
(* unchanged in every field, with only the cache-hit flag added.           *)
(***************************************************************************)
C1_HitReturnsOwnStoredResult ==
    [][\A r \in AllReqs :
         Enters(r) =>
           LET prior == {q \in AllReqs :
                           /\ Fresh(q)
                           /\ params[q] = params'[r]
                           /\ now < FetchedMs(q) + PDF_TTL}
           IN  prior # {} =>
                 /\ calls'[r] = <<"res.json">>
                 /\ res'[r].status = 200
                 /\ \E q \in prior : IsCachedCopy(res'[r].body, res[q].body)
      ]_vars

(***************************************************************************)
(* C2.  For an entry stored at time T: a lookup at a time t < T + TTL is a *)
(* hit, answered with the entry's data; a lookup at a time t >= T + TTL,   *)
(* t = T + TTL included, is a miss: nothing is answered from the stale     *)
(* entry and a fresh retrieval is started.                                 *)
(***************************************************************************)
C2_ExpiryBoundary ==
    [][\A r \in AllReqs :
         Enters(r) =>
           LET key == cacheKey(params'[r].year, params'[r].id)
           IN  key \in DOMAIN pdfCache =>
                 IF now < pdfCache[key].ts + PDF_TTL
                 THEN /\ pc'[r] = "done"
                      /\ res'[r].status = 200
                      /\ IsCachedCopy(res'[r].body, pdfCache[key].data)
                 ELSE /\ pc'[r] = "fetch"
                      /\ res'[r] = NoRes
                      /\ calls'[r] = <<"CMS_PDF_URL", "fetch">>
      ]_vars

\* a request that arrived exactly when an entry's age reached the
\* time-to-live is retrieving afresh
C2_Witness ==
    \E r \in AllReqs :
        /\ pc[r] = "fetch"
        /\ KeyOf(r) \in DOMAIN pdfCache
        /\ startedAt[r] = pdfCache[KeyOf(r)].ts + PDF_TTL

(***************************************************************************)
(* C3.  The four failure kinds of a resolution are distinguishable by      *)
(* something other than the message: the responses to two requests for the *)
(* same (year, id) that failed in different kinds differ in the status, in *)
(* the fields present or in a field other than error.                      *)
(***************************************************************************)
C3_KindsDistinguishable ==
    \A r1, r2 \in AllReqs :
        (/\ Failed(r1) /\ Failed(r2)
         /\ params[r1] = params[r2]
         /\ Kind(r1) # Kind(r2))
        => DiffersBeyondMessage(res[r1], res[r2])

(***************************************************************************)
(* C4.  The cache is written only on full success: a step in which a call  *)
(* ends in an error leaves the cache as it is for every key, and the cache *)
(* changes only in a step in which a call answers with the result it has   *)
(* just built.                                                             *)
(***************************************************************************)
C4_StoreOnlyOnSuccess ==
    [][/\ \A r \in AllReqs :
            (~Done(r) /\ pc'[r] = "done" /\ res'[r].status # 200)
            => pdfCache' = pdfCache
       /\ pdfCache' # pdfCache => \E r \in AllReqs : Stores(r)
      ]_vars

\* a call has ended in an error (its text was too short) although an entry
\* for its key, expired when the call started, is in the cache
C4_Witness ==
    \E r \in AllReqs :
        /\ Failed(r)
        /\ Kind(r) = "EmptyExtraction"
        /\ KeyOf(r) \in DOMAIN pdfCache
        /\ startedAt[r] >= pdfCache[KeyOf(r)].ts + PDF_TTL

(***************************************************************************)
(* C5.  On a cache miss the steps of a resolution are called in the order  *)
(* locate, retrieve (fetch, buffer), extract (pdfParse), segment           *)
(* (extractSections), store, respond; a step is called only after the      *)
(* steps before it succeeded, and after a failed step the call only        *)
(* responds: it neither segments nor stores.                               *)
(***************************************************************************)
PipelineOrder ==
    <<"CMS_PDF_URL", "fetch", "buffer", "pdfParse", "extractSections", "store">>

C5_StepOrder ==
    \A r \in AllReqs :
        LET c == calls[r]
            answered == c # <<>> /\ c[Len(c)] = "res.json"
            steps == IF answered THEN SubSeq(c, 1, Len(c) - 1) ELSE c
        IN  /\ Len(steps) <= Len(PipelineOrder)
            /\ steps = SubSeq(PipelineOrder, 1, Len(steps))
            /\ answered <=> Done(r)
            /\ Fresh(r) => steps = PipelineOrder
            /\ Failed(r) => Len(steps) \in 2..4
            /\ HitDone(r) => steps = <<>>
            /\ pc[r] = "fetch" => Len(steps) = 2
            /\ pc[r] = "buffer" => Len(steps) = 3
            /\ pc[r] = "parse" => Len(steps) = 4

\* a call whose extraction failed has answered without segmenting or storing
C5_Witness ==
    \E r \in AllReqs :
        /\ Failed(r)
        /\ Kind(r) \in {"MalformedDocument", "EmptyExtraction"}
        /\ calls[r] = <<"CMS_PDF_URL", "fetch", "buffer", "pdfParse", "res.json">>

(***************************************************************************)
(* C6, as stated.  While a live entry exists for a (year, id), no call,    *)
(* overlapping or not, invokes a retrieval, extraction or segmentation     *)
(* step for that (year, id).                                               *)
(***************************************************************************)
C6_NoStepWhileLive ==
    [][\A r \in AllReqs :
         (Range(NewCalls(r)) \cap PipelineCalls # {})
         => ~LiveEntry(cacheKey(params'[r].year, params'[r].id))
      ]_vars

(***************************************************************************)
(* C6, amended.  A call that starts while a live entry exists for its      *)
(* (year, id) invokes no retrieval, extraction or segmentation step, then  *)
(* or later.  (A call that started before the entry was stored goes on     *)
(* with its own steps while the entry is live.)                            *)
(***************************************************************************)
C6_NoStepByCallStartedLive ==
    [][\A r \in AllReqs :
         /\ (Enters(r) /\ LiveEntry(cacheKey(params'[r].year, params'[r].id)))
            => (pc'[r] = "done" /\ Range(calls'[r]) \cap PipelineCalls = {})
         /\ Done(r) => (pc'[r] = "done" /\ calls'[r] = calls[r])
      ]_vars

\* a call that started while the entry stored by an earlier call was live
\* has answered without any step
C6_Witness ==
    \E r, q \in AllReqs :
        /\ HitDone(r) /\ Fresh(q)
        /\ KeyOf(r) = KeyOf(q)
        /\ startedAt[r] >= FetchedMs(q)
        /\ startedAt[r] < FetchedMs(q) + PDF_TTL
        /\ calls[r] = <<"res.json">>

(***************************************************************************)
(* C7.  Two overlapping calls for the same uncached (year, id) can both    *)
(* miss and both retrieve and extract (the witness); every store replaces  *)
(* the entry of its key by the result it answers with, storedAt the time   *)
(* of the store, and touches no other key, so the entry is always the one  *)
(* of the store that executed last.                                        *)
(***************************************************************************)
C7_LastStoreWins ==
    [][\A r \in AllReqs :
         Stores(r) =>
           LET key == KeyOf(r)
           IN  /\ DOMAIN pdfCache' = DOMAIN pdfCache \cup {key}
               /\ pdfCache'[key] = [data |-> res'[r].body, ts |-> now]
               /\ \A k \in DOMAIN pdfCache \ {key} : pdfCache'[k] = pdfCache[k]
      ]_vars

\* two calls for the same (year, id) both missed, retrieved and extracted,
\* and the entry is the one of the later store
C7_Witness ==
    \E r1, r2 \in AllReqs :
        /\ Fresh(r1) /\ Fresh(r2)
        /\ params[r1] = params[r2]
        /\ startedAt[r2] <= FetchedMs(r1)
        /\ FetchedMs(r1) < FetchedMs(r2)
        /\ {"fetch", "pdfParse"} \subseteq Range(calls[r1]) \cap Range(calls[r2])
        /\ pdfCache[KeyOf(r1)] = [data |-> res[r2].body, ts |-> FetchedMs(r2)]

(***************************************************************************)
(* C8, as stated.  A stored entry is read-only until it expires: it is     *)
(* never deleted, it does not change while its age is below the            *)
(* time-to-live, and it is replaced only by a resolution that started      *)
(* after it expired.                                                       *)
(***************************************************************************)
C8_ReadOnlyUntilExpiry ==
    [][\A k \in DOMAIN pdfCache :
         /\ k \in DOMAIN pdfCache'
         /\ pdfCache'[k] # pdfCache[k] =>
              /\ now >= pdfCache[k].ts + PDF_TTL
              /\ \E r \in AllReqs :
                    Stores(r) /\ startedAt[r] >= pdfCache[k].ts + PDF_TTL
      ]_vars

(***************************************************************************)
(* C8, amended.  A stored entry is never deleted and never changed in      *)
(* place; it is replaced, as a whole, only by the store of a resolution    *)
(* whose cache check missed: one that started after the entry expired, or  *)
(* one that started before the entry was stored, which can replace it      *)
(* while it is live.                                                       *)
(***************************************************************************)
C8_ReplacedOnlyAfterMiss ==
    [][\A k \in DOMAIN pdfCache :
         /\ k \in DOMAIN pdfCache'
         /\ pdfCache'[k] # pdfCache[k] =>
              \E r \in AllReqs :
                 /\ Stores(r)
                 /\ KeyOf(r) = k
                 /\ pdfCache'[k] = [data |-> res'[r].body, ts |-> now]
                 /\ \/ startedAt[r] >= pdfCache[k].ts + PDF_TTL
                    \/ startedAt[r] <= pdfCache[k].ts
      ]_vars

\* an entry has been replaced by a resolution that started after it expired
C8_Witness ==
    \E r1, r2 \in AllReqs :
        /\ Fresh(r1) /\ Fresh(r2)
        /\ KeyOf(r1) = KeyOf(r2)
        /\ startedAt[r2] >= FetchedMs(r1) + PDF_TTL
        /\ pdfCache[KeyOf(r2)].data = res[r2].body

(***************************************************************************)
(* C9.  For an extracted text of length L >= 100 the result's charCount is *)
(* L, the length before the cut, and its fullText is the first             *)
(* min(L, 15000) characters of the text; in the fresh response and in      *)
(* every cache-hit response, which is the copy of a fresh one.             *)
(***************************************************************************)
C9_CharCountUntruncated ==
    \A r \in AllReqs :
        (Done(r) /\ res[r].status = 200) =>
            LET b == res[r].body
            IN  /\ b.charCount >= MIN_TEXT
                /\ TLen(b.fullText) = Min(b.charCount, FULLTEXT_CAP)
                /\ Fresh(r) =>
                     /\ b.charCount = TLen(pdfData[r].text)
                     /\ IsPrefixText(b.fullText, pdfData[r].text)
                /\ HitDone(r) =>
                     \E q \in AllReqs :
                        /\ Fresh(q)
                        /\ IsCachedCopy(b, res[q].body)
                        /\ b.charCount = TLen(pdfData[q].text)
                        /\ IsPrefixText(b.fullText, pdfData[q].text)

\* a cache hit has served a result whose text was longer than the cap
C9_Witness ==
    \E r \in AllReqs :
        /\ HitDone(r)
        /\ res[r].body.charCount > FULLTEXT_CAP
        /\ TLen(res[r].body.fullText) = FULLTEXT_CAP

(***************************************************************************)
(* C10.  extractSections(text) returns an object in which a section name   *)
(* is a key exactly when its pattern matched, and no key maps to the empty *)
(* string.                                                                 *)
(***************************************************************************)
C10_NoEmptySection ==
    segPc = "return" =>
        /\ \A key \in DOMAIN Patterns :
              key \in DOMAIN segOut <=> Matches(segText, Patterns[key])
        /\ \A key \in DOMAIN segOut : segOut[key] # EmptyText

\* the atoms of a after position i hold none of the label words ws
NoneAfter(a, i, ws) == \A n \in (i + 1)..Len(a) : Upper(a[n]) \notin ws

\* the text t from the first atom k of its atoms that is no separator, at or
\* after position i, to its end
RestAfterSeps(t, i) ==
    LET a == Atoms(t)
        k == CHOOSE x \in i..(Len(a) + 1) :
                /\ x = Len(a) + 1 \/ ~IsSep(a[x])
                /\ \A y \in i..(x - 1) : IsSep(a[y])
    IN  FromAtoms(SubSeq(a, k, Len(a)), t)

(***************************************************************************)
(* C11.  For a text with a DENOMINATOR label, separators and content after *)
(* it and no terminator label (DENOMINATOR NOTE, NUMERATOR, EXCLUSION)     *)
(* before the end of the text, extractSections(text) has a key denominator *)
(* whose value is the content from after the label to the end of the text, *)
(* trimmed and cut to 1000 characters.                                     *)
(***************************************************************************)
C11_DenominatorToEndOfText ==
    segPc = "return" =>
        LET a == Atoms(segText)
        IN  \A i \in 1..Len(a) :
              (/\ Upper(a[i]) = "DENOMINATOR"
               /\ \A n \in 1..(i - 1) : Upper(a[n]) # "DENOMINATOR"
               /\ i < Len(a) /\ IsSep(a[i + 1])
               /\ NoneAfter(a, i, {"DENOMINATOR", "NUMERATOR", "EXCLUSION"})
               /\ Trim(RestAfterSeps(segText, i + 1)) # EmptyText)
              => /\ "denominator" \in DOMAIN segOut
                 /\ segOut["denominator"] =
                      Slice(Trim(RestAfterSeps(segText, i + 1)), SECTION_CAP)

\* the atoms of Phrase occur in the text t, one after the other
ContainsPhrase(t) ==
    \E i \in 1..Len(t.head) :
        /\ i + Len(Phrase) - 1 <= Len(t.head)
        /\ SubSeq(t.head, i, i + Len(Phrase) - 1) = Phrase

\* the string s as a text
TextOf(s) == [head |-> <<s>>, pad |-> 0]

(***************************************************************************)
(* C12.  For every well-formed document whose text contains                *)
(* "NUMERATOR: Patients screened. EXCLUSION: Patients under 18.", whatever *)
(* surrounds it, a request for ("2024", "7") is answered with sections in  *)
(* which numerator is "Patients screened." and exclusions is               *)
(* "Patients under 18."; and a request for ("2024", "7") that arrives      *)
(* within PDF_TTL of such an answer is answered with a copy of a stored    *)
(* result, as a cache hit.                                                 *)
(***************************************************************************)
C12_ScenarioSections ==
    [][\A r \in AllReqs :
         /\ (/\ Stores(r)
             /\ params[r] = [year |-> "2024", id |-> "7"]
             /\ ContainsPhrase(pdfData'[r].text))
            => LET sec == res'[r].body.sections
               IN  /\ "numerator" \in DOMAIN sec
                   /\ sec["numerator"] = TextOf("Patients screened.")
                   /\ "exclusions" \in DOMAIN sec
                   /\ sec["exclusions"] = TextOf("Patients under 18.")
         /\ Enters(r) =>
              LET prior == {q \in AllReqs :
                              /\ Fresh(q)
                              /\ params[q] = [year |-> "2024", id |-> "7"]
                              /\ params[q] = params'[r]
                              /\ now < FetchedMs(q) + PDF_TTL}
              IN  prior # {} =>
                     /\ pc'[r] = "done"
                     /\ \E q \in prior : IsCachedCopy(res'[r].body, res[q].body)
      ]_vars

(***************************************************************************)
(* C13.  Every error response, whichever step failed, carries the year and *)
(* the id of the request and the address that was attempted; the response  *)
(* to a non-success upstream status has a hint besides and status 404, the *)
(* response to every other failure has status 502.                         *)
(***************************************************************************)
C13_ErrorContext ==
    \A r \in AllReqs :
        Failed(r) =>
            LET b == res[r].body
            IN  /\ {"error", "id", "year", "pdfUrl"} \subseteq DOMAIN b
                /\ b.id = params[r].id
                /\ b.year = params[r].year
                /\ b.pdfUrl = pdfUrl[r]
                /\ calls[r][1] = "CMS_PDF_URL" /\ calls[r][2] = "fetch"
                /\ IF Kind(r) = "NotFound"
                   THEN res[r].status = 404 /\ "hint" \in DOMAIN b
                   ELSE res[r].status = 502

\* one request was refused by the upstream and another, for another id, got
\* a text that was too short
C13_Witness ==
    \E r1, r2 \in AllReqs :
        /\ Failed(r1) /\ Kind(r1) = "NotFound"
        /\ Failed(r2) /\ Kind(r2) = "EmptyExtraction"
        /\ params[r1].id # params[r2].id
        /\ res[r1].body.pdfUrl # res[r2].body.pdfUrl

\* the entries of the cache whose age is below the time-to-live
LiveKeys == {k \in DOMAIN pdfCache : now - pdfCache[k].ts < PDF_TTL}

(***************************************************************************)
(* C14.  The cache count that GET /health reports is the number of live    *)
(* entries, those whose age is below the time-to-live, at the time of the  *)
(* report; expired entries are not counted.                                *)
(***************************************************************************)
C14_HealthCountsLive ==
    [][health' # health =>
         health'.body.pdfCache
           = ToString(Cardinality(LiveKeys)) \o " PDFs cached"
      ]_vars

\* the addresses the handler of chat-completion request v has called
SentTo(v) == [i \in DOMAIN review[v].sent |-> review[v].sent[i].url]

(***************************************************************************)
(* C15.  A chat-completion request is forwarded to at most one backend: to *)
(* Groq whenever its credential is present, the credential of Anthropic    *)
(* present or not; to Anthropic only when the credential of Groq is absent *)
(* and that of Anthropic present; with neither credential it is answered   *)
(* with an error and nothing is sent out.                                  *)
(***************************************************************************)
C15_OneBackend ==
    \A v \in Revs :
        review[v].pc # "idle" =>
            LET groq == Truthy(env, "GROQ_API_KEY")
                anthropic == Truthy(env, "ANTHROPIC_API_KEY")
            IN  /\ Len(review[v].sent) <= 1
                /\ groq => /\ SentTo(v) = <<GROQ_URL>>
                           /\ review[v].sent[1].credential = env["GROQ_API_KEY"]
                /\ (~groq /\ anthropic) =>
                      /\ SentTo(v) = <<ANTHROPIC_URL>>
                      /\ review[v].sent[1].credential = env["ANTHROPIC_API_KEY"]
                /\ (~groq /\ ~anthropic) =>
                      /\ SentTo(v) = <<>>
                      /\ review[v].pc = "done"
                      /\ review[v].res.status = 400
                      /\ "error" \in DOMAIN review[v].res.body

\* with both credentials present a request went to Groq and was answered
C15_Witness ==
    \E v \in Revs :
        /\ Truthy(env, "GROQ_API_KEY") /\ Truthy(env, "ANTHROPIC_API_KEY")
        /\ review[v].pc = "done"
        /\ review[v].res.status = 200
        /\ SentTo(v) = <<GROQ_URL>>

\* the address with the id segment seg
AddressWith(year, seg) ==
    "https://qpp.cms.gov/docs/QPP_quality_measure_specifications/CQM-Measures/"
    \o year \o "_Measure_" \o seg \o "_MIPSCQM.pdf"

(***************************************************************************)
(* C16, as stated.  The address of a request depends on its year and id    *)
(* only, and its id segment is the id left-padded with zeros to exactly 3  *)
(* digits.                                                                 *)
(***************************************************************************)
C16_PaddedToExactlyThree ==
    \A r \in AllReqs :
        pc[r] = "fetch" =>
            \E seg \in {params[r].id, "0" \o params[r].id,
                        "00" \o params[r].id} :
                /\ Len(seg) = 3
                /\ pdfUrl[r] = AddressWith(params[r].year, seg)

(***************************************************************************)
(* C16, amended.  The address of a request depends on its year and id      *)
(* only, and its id segment is the id left-padded with zeros to at least 3 *)
(* characters: to exactly 3 when the id has at most 3 characters ("7"      *)
(* gives "007"), and an id of more than 3 characters as it is.             *)
(***************************************************************************)
C16_PaddedToAtLeastThree ==
    \A r \in AllReqs :
        pc[r] = "fetch" =>
            LET id == params[r].id
                seg == CASE Len(id) = 1 -> "00" \o id
                         [] Len(id) = 2 -> "0" \o id
                         [] OTHER -> id
            IN  pdfUrl[r] = AddressWith(params[r].year, seg)

\* the address for an id of more than three digits has been built and
\* reported: the id is in it as it is
C16_Witness ==
    \E r \in AllReqs :
        /\ pc[r] = "done"
        /\ Len(params[r].id) > 3
        /\ res[r].body.pdfUrl = AddressWith(params[r].year, params[r].id)

(***************************************************************************)
(* C17.  The cache is keyed by the pair (year, id): a result stored for    *)
(* one pair is never served to a request for another pair, so every        *)
(* cache-hit response carries the year and the id of its request, also     *)
(* when year or id contain the "_" of the key.                             *)
(***************************************************************************)
C17_HitCarriesOwnPair ==
    \A r \in AllReqs :
        HitDone(r) =>
            /\ res[r].body.year = params[r].year
            /\ res[r].body.id = params[r].id
            /\ \E q \in AllReqs :
                  /\ Fresh(q) /\ params[q] = params[r]
                  /\ IsCachedCopy(res[r].body, res[q].body)

\* how often x occurs in the sequence q
CountOf(q, x) == Cardinality({i \in DOMAIN q : q[i] = x})

\* the retrieval of r failed: fetch threw, or its response was not ok
RetrievalFailed(r) ==
    Failed(r) /\ (err[r].from = "fetch" \/ err[r] = NoErr)

(***************************************************************************)
(* C18.  A call issues at most one outbound retrieval request, to one      *)
(* address; after a failed retrieval (a status that is not a success, or a *)
(* transport failure) it calls nothing more but the response, in which the *)
(* failure is reported.                                                    *)
(***************************************************************************)
C18_SingleRetrieval ==
    \A r \in AllReqs :
        /\ CountOf(calls[r], "fetch") <= 1
        /\ CountOf(calls[r], "CMS_PDF_URL") <= 1
        /\ RetrievalFailed(r) =>
              /\ calls[r] = <<"CMS_PDF_URL", "fetch", "res.json">>
              /\ res[r].status \in {404, 502}
              /\ "error" \in DOMAIN res[r].body
              /\ res[r].body.pdfUrl = pdfUrl[r]

\* the retrieval of one call was refused and that of another threw
C18_Witness ==
    \E r1, r2 \in AllReqs :
        /\ RetrievalFailed(r1) /\ res[r1].status = 404
        /\ RetrievalFailed(r2) /\ err[r2].from = "fetch"
        /\ res[r2].body.error \in FetchErrors

\* the response of r is of exactly one of the four kinds
OneKind(r) ==
    Cardinality({k \in {"hit", "fresh", "not-found", "error"} :
        \/ k = "hit" /\ HitDone(r)
        \/ k = "fresh" /\ Fresh(r)
        \/ k = "not-found" /\ res[r].status = 404
        \/ k = "error" /\ res[r].status = 502}) = 1

(***************************************************************************)
(* C19.  Every call sends exactly one response: never two, and, when every *)
(* promise the handler waits for is settled, never none; the response is a *)
(* cache-hit result, a fresh result, a not-found error or a pipeline       *)
(* error.                                                                  *)
(***************************************************************************)
C19_ExactlyOneResponse ==
    /\ [](\A r \in Reqs :
            /\ CountOf(calls[r], "res.json") = (IF Done(r) THEN 1 ELSE 0)
            /\ res[r] # NoRes <=> Done(r)
            /\ Done(r) => OneKind(r))
    /\ \A r \in Reqs : (pc[r] # "idle") ~> Done(r)

\* one call was answered with a fresh result and another with a pipeline
\* error, each with one response
C19_Witness ==
    \E r1, r2 \in AllReqs :
        /\ Fresh(r1) /\ CountOf(calls[r1], "res.json") = 1
        /\ Failed(r2) /\ res[r2].status = 502
        /\ CountOf(calls[r2], "res.json") = 1

====
